---- MODULE Spec2Model ----
(***************************************************************************)
(* Model of webfishing-save-converter.py: the Godot variant codec          *)
(* (SaveFileReader, SaveFileWriter, WebFishingDeserializer,                *)
(* WebFishingSerializer, parse_save_file, convert_json_to_sav).            *)
(*                                                                         *)
(* Representation of Python values:                                        *)
(*   None   [t |-> "None"]                                                 *)
(*   bool   [t |-> "bool",  b |-> TRUE/FALSE]                              *)
(*   int    [t |-> "int",   n |-> [neg, mag]]  arbitrary precision: sign   *)
(*          and magnitude, mag = hex digits, most significant first,       *)
(*          without leading zeros (zero is the empty magnitude)            *)
(*   float  [t |-> "float", x |-> [s, e, mhi, mlo]]  IEEE-754 binary64:    *)
(*          sign, biased exponent, high and low 26 bits of the fraction    *)
(*   str    [t |-> "str",   s |-> sequence of code points]                 *)
(*   dict   [t |-> "dict",  items |-> sequence of [k, v], keys distinct,   *)
(*          in insertion order; k is a sequence of code points]            *)
(*   list   [t |-> "list",  elems |-> sequence of values]                  *)
(*   bytes  [t |-> "bytes"]  a value of no supported type                  *)
(* A byte buffer is a sequence over 0..255; Python's 0-based position p    *)
(* addresses element p + 1.  An operation that can raise returns a record  *)
(* with an err field: "none", or the name of the exception raised.         *)
(***************************************************************************)
EXTENDS Integers, Sequences, FiniteSets, TLC

VARIABLES pc, value, scenario, buffer, position, result, err, calls

vars == <<pc, value, scenario, buffer, position, result, err, calls>>

(***************************************************************************)
(* class GodotVariantType                                                  *)
(***************************************************************************)
NIL == 0
BOOL == 1
INT == 2
REAL == 3
STRING_ == 4
VECTOR2 == 5
DICTIONARY == 18
ARRAY == 19

(***************************************************************************)
(* Generic sequence helpers.                                               *)
(***************************************************************************)
Min(a, b) == IF a <= b THEN a ELSE b

Max(a, b) == IF a >= b THEN a ELSE b

Rep(x, n) == [i \in 1..n |-> x]

Reverse(s) == [i \in 1..Len(s) |-> s[Len(s) + 1 - i]]

\* Python's data[a:b] for 0 <= a, clipped to the end of data as slicing does.
Slice(data, a, b) == SubSeq(data, a + 1, Min(b, Len(data)))

RECURSIVE Pow2(_)
Pow2(n) == IF n = 0 THEN 1 ELSE 2 * Pow2(n - 1)

RECURSIVE StripZeros(_)
StripZeros(s) ==
    IF s # <<>> /\ Head(s) = 0 THEN StripZeros(Tail(s)) ELSE s

\* Big-endian digits of base b to a number (used only below 2^31).
RECURSIVE DigitsToNat(_, _)
DigitsToNat(s, b) ==
    IF s = <<>> THEN 0
    ELSE DigitsToNat(SubSeq(s, 1, Len(s) - 1), b) * b + s[Len(s)]

\* n as exactly w big-endian digits of base b (n < b^w).
RECURSIVE NatToDigits(_, _, _)
NatToDigits(n, b, w) ==
    IF w = 0 THEN <<>>
    ELSE NatToDigits(n \div b, b, w - 1) \o <<(n % b)>>

(***************************************************************************)
(* Python int: sign and magnitude in hex digits.                           *)
(***************************************************************************)
PyInt(neg, mag) == [neg |-> neg, mag |-> mag]

\* a <= b on magnitudes (hex digits without leading zeros).
RECURSIVE MagLE(_, _)
MagLE(a, b) ==
    IF Len(a) # Len(b) THEN Len(a) < Len(b)
    ELSE IF a = <<>> THEN TRUE
    ELSE IF Head(a) # Head(b) THEN Head(a) < Head(b)
    ELSE MagLE(Tail(a), Tail(b))

\* lo <= n <= hi on Python ints.
IntLE(a, b) ==
    IF a.neg /\ ~b.neg THEN TRUE
    ELSE IF ~a.neg /\ b.neg THEN FALSE
    ELSE IF a.neg THEN MagLE(b.mag, a.mag)
    ELSE MagLE(a.mag, b.mag)

\* Adding one to a fixed-width big-endian digit string of base b, the carry
\* out dropped.
RECURSIVE Incr(_, _)
Incr(s, b) ==
    IF s = <<>> THEN <<>>
    ELSE IF s[Len(s)] = b - 1 THEN Incr(SubSeq(s, 1, Len(s) - 1), b) \o <<0>>
    ELSE SubSeq(s, 1, Len(s) - 1) \o <<s[Len(s)] + 1>>

Invert(s) == [i \in 1..Len(s) |-> 15 - s[i]]

\* Hex digits (big-endian, even length) to little-endian bytes and back.
NibblesToBytesLE(s) ==
    Reverse([i \in 1..(Len(s) \div 2) |-> (s[(2 * i) - 1] * 16) + s[2 * i]])

BytesLEToNibbles(bs) ==
    [i \in 1..(2 * Len(bs)) |->
        IF i % 2 = 1 THEN Reverse(bs)[(i + 1) \div 2] \div 16
        ELSE Reverse(bs)[i \div 2] % 16]

\* Two's complement of n in nbytes bytes, little-endian (n within range).
ToTwos(n, nbytes) ==
    LET padded == Rep(0, 2 * nbytes - Len(n.mag)) \o n.mag
    IN  NibblesToBytesLE(IF n.neg THEN Incr(Invert(padded), 16) ELSE padded)

\* The signed integer a little-endian two's complement byte string denotes.
FromTwos(bs) ==
    LET nib == BytesLEToNibbles(bs)
    IN  IF nib[1] >= 8
        THEN PyInt(TRUE, StripZeros(Incr(Invert(nib), 16)))
        ELSE PyInt(FALSE, StripZeros(nib))

I32_MIN == PyInt(TRUE, <<8, 0, 0, 0, 0, 0, 0, 0>>)

I32_MAX == PyInt(FALSE, <<7, 15, 15, 15, 15, 15, 15, 15>>)

I64_MIN == PyInt(TRUE, <<8>> \o Rep(0, 15))

I64_MAX == PyInt(FALSE, <<7>> \o Rep(15, 15))

(***************************************************************************)
(* Text: str.encode('utf-8') and bytes.decode('utf-8', errors='ignore').   *)
(***************************************************************************)
IsSurrogate(c) == c >= 55296 /\ c <= 57343

EncodeChar(c) ==
    IF c < 128 THEN <<c>>
    ELSE IF c < 2048 THEN <<192 + (c \div 64), 128 + (c % 64)>>
    ELSE IF c < 65536
         THEN <<224 + (c \div 4096), 128 + ((c \div 64) % 64), 128 + (c % 64)>>
    ELSE <<240 + (c \div 262144), 128 + ((c \div 4096) % 64),
           128 + ((c \div 64) % 64), 128 + (c % 64)>>

RECURSIVE EncodeChars(_)
EncodeChars(s) ==
    IF s = <<>> THEN <<>> ELSE EncodeChar(Head(s)) \o EncodeChars(Tail(s))

\* value.encode('utf-8'): lone surrogates cannot be encoded.
utf8_encode(s) ==
    IF \E i \in 1..Len(s) : IsSurrogate(s[i])
    THEN [err |-> "UnicodeEncodeError", bytes |-> <<>>]
    ELSE [err |-> "none", bytes |-> EncodeChars(s)]

IsCont(b) == b >= 128 /\ b <= 191

\* The length of the well-formed UTF-8 sequence bs starts with, 0 if none.
WellFormedLen(bs) ==
    LET n == Len(bs)
        b1 == bs[1]
    IN  IF b1 < 128 THEN 1
        ELSE IF b1 >= 194 /\ b1 <= 223 /\ n >= 2 /\ IsCont(bs[2]) THEN 2
        ELSE IF b1 >= 224 /\ b1 <= 239 /\ n >= 3 /\ IsCont(bs[2]) /\ IsCont(bs[3])
                /\ (b1 = 224 => bs[2] >= 160) /\ (b1 = 237 => bs[2] <= 159)
             THEN 3
        ELSE IF b1 >= 240 /\ b1 <= 244 /\ n >= 4 /\ IsCont(bs[2]) /\ IsCont(bs[3])
                /\ IsCont(bs[4])
                /\ (b1 = 240 => bs[2] >= 144) /\ (b1 = 244 => bs[2] <= 143)
             THEN 4
        ELSE 0

DecodeChar(bs, n) ==
    IF n = 1 THEN bs[1]
    ELSE IF n = 2 THEN (bs[1] - 192) * 64 + (bs[2] - 128)
    ELSE IF n = 3
         THEN (bs[1] - 224) * 4096 + (bs[2] - 128) * 64 + (bs[3] - 128)
    ELSE (bs[1] - 240) * 262144 + (bs[2] - 128) * 4096
         + (bs[3] - 128) * 64 + (bs[4] - 128)

\* bytes.decode('utf-8', errors='ignore'): every byte that does not begin a
\* well-formed sequence is dropped.
RECURSIVE utf8_decode_ignore(_)
utf8_decode_ignore(bs) ==
    IF bs = <<>> THEN <<>>
    ELSE LET n == WellFormedLen(bs)
         IN  IF n = 0 THEN utf8_decode_ignore(Tail(bs))
             ELSE <<DecodeChar(bs, n)>>
                  \o utf8_decode_ignore(SubSeq(bs, n + 1, Len(bs)))

StartsWith(s, p) == Len(s) >= Len(p) /\ SubSeq(s, 1, Len(p)) = p

HexVal(c) ==
    IF c >= 48 /\ c <= 57 THEN c - 48
    ELSE IF c >= 65 /\ c <= 70 THEN c - 55
    ELSE IF c >= 97 /\ c <= 102 THEN c - 87
    ELSE 0 - 1

HexChar(d) == IF d < 10 THEN 48 + d ELSE 55 + d

IsSpace(c) == c = 32 \/ (c >= 9 /\ c <= 13)

RECURSIVE RStrip(_)
RStrip(s) ==
    IF s # <<>> /\ IsSpace(s[Len(s)]) THEN RStrip(SubSeq(s, 1, Len(s) - 1))
    ELSE s

RECURSIVE DropUnderscores(_)
DropUnderscores(s) ==
    IF s = <<>> THEN <<>>
    ELSE IF Head(s) = 95 THEN DropUnderscores(Tail(s))
    ELSE <<Head(s)>> \o DropUnderscores(Tail(s))

\* int(k, 16) for a k that starts with "0x": the digits that follow the
\* prefix, single underscores allowed before and between them, trailing
\* white space allowed; anything else is a ValueError.
int_base16(k) ==
    LET body == RStrip(SubSeq(k, 3, Len(k)))
        ok == /\ body # <<>>
              /\ body[Len(body)] # 95
              /\ \A i \in 1..Len(body) : HexVal(body[i]) >= 0 \/ body[i] = 95
              /\ \A i \in 1..(Len(body) - 1) : ~(body[i] = 95 /\ body[i + 1] = 95)
        digits == DropUnderscores(body)
    IN  IF ok
        THEN [err |-> "none",
              val |-> PyInt(FALSE,
                        StripZeros([i \in 1..Len(digits) |-> HexVal(digits[i])]))]
        ELSE [err |-> "ValueError", val |-> PyInt(FALSE, <<>>)]

\* The key formatted without zero padding: f"0x{key_val:X}"
format_key_unpadded(n) ==
    <<48, 120>> \o (IF n.neg THEN <<45>> ELSE <<>>)
    \o (IF n.mag = <<>> THEN <<48>>
        ELSE [i \in 1..Len(n.mag) |-> HexChar(n.mag[i])])

\* f"0x{key_val:08X}": upper-case hex, zero-padded to width 8, the sign
\* counted in the width.
format_key(n) ==
    LET digits == IF n.mag = <<>> THEN <<48>>
                  ELSE [i \in 1..Len(n.mag) |-> HexChar(n.mag[i])]
        sign == IF n.neg THEN <<45>> ELSE <<>>
    IN  <<48, 120>> \o sign
        \o Rep(48, Max(0, 8 - Len(sign) - Len(digits))) \o digits

\* str(base_type) for 0 <= base_type <= 65535.
DecStr(n) ==
    LET d == StripZeros(NatToDigits(n, 10, 5))
    IN  IF d = <<>> THEN <<48>> ELSE [i \in 1..Len(d) |-> 48 + d[i]]

\* f"Unsupported type {base_type}"
unsupported_text(base_type) ==
    <<85, 110, 115, 117, 112, 112, 111, 114, 116, 101, 100, 32,
      116, 121, 112, 101, 32>> \o DecStr(base_type)

(***************************************************************************)
(* Python float (binary64) and the struct formats '<d' and '<f'.           *)
(***************************************************************************)
Float(s, e, mhi, mlo) == [s |-> s, e |-> e, mhi |-> mhi, mlo |-> mlo]

\* struct.pack('<d', x): the 64 bits of x, little-endian.
pack_d(x) ==
    <<x.mlo % 256,
      (x.mlo \div 256) % 256,
      (x.mlo \div 65536) % 256,
      ((x.mhi % 64) * 4) + (x.mlo \div 16777216),
      (x.mhi \div 64) % 256,
      (x.mhi \div 16384) % 256,
      ((x.e % 16) * 16) + (x.mhi \div 4194304),
      (x.s * 128) + (x.e \div 16)>>

\* struct.unpack('<d', bs)[0]
unpack_d(bs) ==
    Float(bs[8] \div 128,
          ((bs[8] % 128) * 16) + (bs[7] \div 16),
          ((bs[7] % 16) * 4194304) + (bs[6] * 16384) + (bs[5] * 64)
              + (bs[4] \div 4),
          ((bs[4] % 4) * 16777216) + (bs[3] * 65536) + (bs[2] * 256) + bs[1])

\* The 4 bytes of a binary32 with sign s, biased exponent e8, fraction m23.
F32Bytes(s, e8, m23) ==
    <<m23 % 256,
      (m23 \div 256) % 256,
      ((e8 % 2) * 128) + (m23 \div 65536),
      (s * 128) + (e8 \div 2)>>

\* Position (0-based) of the highest set bit of n > 0.
RECURSIVE HighBit(_)
HighBit(n) == IF n <= 1 THEN 0 ELSE 1 + HighBit(n \div 2)

\* struct.unpack('<f', bs)[0]: the binary32 widened to binary64 (exact).
unpack_f(bs) ==
    LET s == bs[4] \div 128
        e8 == ((bs[4] % 128) * 2) + (bs[3] \div 128)
        m23 == ((bs[3] % 128) * 65536) + (bs[2] * 256) + bs[1]
        p == HighBit(m23)
    IN  IF e8 = 255 THEN Float(s, 2047, m23 * 8, 0)
        ELSE IF e8 = 0 /\ m23 = 0 THEN Float(s, 0, 0, 0)
        ELSE IF e8 = 0 THEN Float(s, p + 874, (m23 - Pow2(p)) * Pow2(26 - p), 0)
        ELSE Float(s, e8 + 896, m23 * 8, 0)

\* The normal binary32 with exponent e8; OverflowError when e8 is beyond
\* the finite range.
finite_f32(s, e8, m23) ==
    IF e8 >= 255 THEN [err |-> "OverflowError", bytes |-> <<>>]
    ELSE [err |-> "none", bytes |-> F32Bytes(s, e8, m23)]

\* A binary32 in the normal range before rounding: the fraction m23 and
\* the 29 bits below it, rounded to nearest, ties to even.
round_normal(s, e8, m23, rest) ==
    IF rest > 268435456 \/ (rest = 268435456 /\ m23 % 2 = 1)
    THEN IF m23 + 1 = 8388608 THEN finite_f32(s, e8 + 1, 0)
         ELSE finite_f32(s, e8, m23 + 1)
    ELSE finite_f32(s, e8, m23)

\* A value below the normal range of binary32: the 24-bit significand sig
\* shifted right by shift, rounded to nearest, ties to even.
round_subnormal(s, shift, sig, rest) ==
    IF shift > 25 THEN [err |-> "none", bytes |-> F32Bytes(s, 0, 0)]
    ELSE LET q == sig \div Pow2(shift)
             r == sig % Pow2(shift)
             h == Pow2(shift - 1)
         IN  IF r > h \/ (r = h /\ (rest > 0 \/ q % 2 = 1))
             THEN [err |-> "none",
                   bytes |-> F32Bytes(s, (q + 1) \div 8388608, (q + 1) % 8388608)]
             ELSE [err |-> "none", bytes |-> F32Bytes(s, 0, q)]

\* struct.pack('<f', x) for a float x: x rounded to binary32; OverflowError
\* when a finite x rounds to infinity.
pack_f(x) ==
    IF x.e = 2047
    THEN [err |-> "none",
          bytes |-> F32Bytes(x.s, 255,
                      IF x.mhi = 0 /\ x.mlo = 0 THEN 0
                      ELSE 4194304 + ((x.mhi \div 8) % 4194304))]
    ELSE IF x.e = 0 THEN [err |-> "none", bytes |-> F32Bytes(x.s, 0, 0)]
    ELSE IF x.e - 896 >= 1
         THEN round_normal(x.s, x.e - 896, x.mhi \div 8,
                           ((x.mhi % 8) * 67108864) + x.mlo)
    ELSE round_subnormal(x.s, 897 - x.e, 8388608 + (x.mhi \div 8),
                         ((x.mhi % 8) * 67108864) + x.mlo)

HexToBits(mag) ==
    StripZeros([i \in 1..(4 * Len(mag)) |->
        (mag[(i + 3) \div 4] \div Pow2(3 - ((i - 1) % 4))) % 2])

\* The binary64 with sign s, exponent e and the 52 fraction bits m.
bits_float(s, e, m) ==
    IF e >= 2047 THEN [err |-> "OverflowError", val |-> Float(0, 0, 0, 0)]
    ELSE [err |-> "none",
          val |-> Float(s, e, DigitsToNat(SubSeq(m, 1, 26), 2),
                        DigitsToNat(SubSeq(m, 27, 52), 2))]

\* The leading 1 aside, keep holds the first 52 of the L bits of n and rem
\* the others: round to nearest, ties to even.
round_bits(s, L, keep, rem) ==
    IF /\ rem # <<>>
       /\ rem[1] = 1
       /\ \/ \E i \in 2..Len(rem) : rem[i] = 1
          \/ keep[52] = 1
    THEN IF keep = Rep(1, 52) THEN bits_float(s, L + 1023, Rep(0, 52))
         ELSE bits_float(s, L + 1022, Incr(keep, 2))
    ELSE bits_float(s, L + 1022, keep)

split_bits(s, bits) ==
    IF bits = <<>> THEN [err |-> "none", val |-> Float(0, 0, 0, 0)]
    ELSE IF Len(bits) - 1 <= 52
         THEN round_bits(s, Len(bits), Tail(bits) \o Rep(0, 53 - Len(bits)), <<>>)
    ELSE round_bits(s, Len(bits), SubSeq(bits, 2, 53),
                    SubSeq(bits, 54, Len(bits)))

\* float(n) for a Python int n: n rounded to binary64.
int_to_float(n) == split_bits(IF n.neg THEN 1 ELSE 0, HexToBits(n.mag))

(***************************************************************************)
(* class SaveFileWriter: each method maps the writer's data to the data    *)
(* after the call, or to the exception struct.pack raises.                 *)
(***************************************************************************)
Ok(data) == [err |-> "none", data |-> data]

Raise(e) == [err |-> e, data |-> <<>>]

\* struct.pack('<I', value) for 0 <= value < 2^31
LE4(n) ==
    <<n % 256, (n \div 256) % 256, (n \div 65536) % 256, (n \div 16777216) % 256>>

write_uint32(data, n) == Ok(data \o LE4(n))

write_int32(data, n) ==
    IF IntLE(I32_MIN, n) /\ IntLE(n, I32_MAX) THEN Ok(data \o ToTwos(n, 4))
    ELSE Raise("struct.error")

write_int64(data, n) ==
    IF IntLE(I64_MIN, n) /\ IntLE(n, I64_MAX) THEN Ok(data \o ToTwos(n, 8))
    ELSE Raise("struct.error")

append_packed(data, packed) ==
    IF packed.err # "none" THEN Raise(packed.err) ELSE Ok(data \o packed.bytes)

pack_converted(data, x) ==
    IF x.err # "none" THEN Raise(x.err) ELSE append_packed(data, pack_f(x.val))

\* struct.pack('<f', v) takes a float, or an int or bool through __float__.
write_float(data, v) ==
    IF v.t = "float" THEN append_packed(data, pack_f(v.x))
    ELSE IF v.t = "int" THEN pack_converted(data, int_to_float(v.n))
    ELSE IF v.t = "bool"
         THEN pack_converted(data,
                  int_to_float(PyInt(FALSE, IF v.b THEN <<1>> ELSE <<>>)))
    ELSE Raise("struct.error")

write_double(data, x) == Ok(data \o pack_d(x))

append_string(data, encoded) ==
    IF encoded.err # "none" THEN Raise(encoded.err)
    ELSE Ok(write_uint32(data, Len(encoded.bytes)).data \o encoded.bytes
            \o Rep(0, (4 - (Len(encoded.bytes) % 4)) % 4))

write_string(data, s) == append_string(data, utf8_encode(s))

(***************************************************************************)
(* Python values.                                                          *)
(***************************************************************************)
None == [t |-> "None"]

BoolV(b) == [t |-> "bool", b |-> b]

IntV(n) == [t |-> "int", n |-> n]

FloatV(x) == [t |-> "float", x |-> x]

StrV(s) == [t |-> "str", s |-> s]

DictV(items) == [t |-> "dict", items |-> items]

ListV(items) == [t |-> "list", elems |-> items]

Item(k, v) == [k |-> k, v |-> v]

HasKey(items, k) == \E i \in 1..Len(items) : items[i].k = k

\* value[k] for a key the dict holds
Lookup(items, k) ==
    items[CHOOSE i \in 1..Len(items) : items[i].k = k].v

\* result[k] = v: a new key is appended, an existing key keeps its place.
DictSet(items, k, v) ==
    IF HasKey(items, k)
    THEN [i \in 1..Len(items) |->
            IF items[i].k = k THEN Item(k, v) ELSE items[i]]
    ELSE Append(items, Item(k, v))

(***************************************************************************)
(* class WebFishingSerializer                                              *)
(***************************************************************************)
\* The narrow range taken one too wide: -2**31 <= value <= 2**31
is_narrow_off_by_one(n) ==
    IntLE(I32_MIN, n) /\ IntLE(n, PyInt(FALSE, <<8>> \o Rep(0, 7)))

\* -2**31 <= value <= 2**31-1
is_narrow(n) == IntLE(I32_MIN, n) /\ IntLE(n, I32_MAX)

\* len(value) == 2 and "x" in value and "y" in value
is_vector2(items) ==
    Len(items) = 2 /\ HasKey(items, <<120>>) /\ HasKey(items, <<121>>)

\* k.startswith("0x")
is_int_key(k) == StartsWith(k, <<48, 120>>)

RECURSIVE write_value(_, _)
RECURSIVE write_dict_items(_, _, _)
RECURSIVE write_list_items(_, _, _)

\* The writer after a call, or the exception: what follows a call that
\* raised is not run.
Then2(w, val) == IF w.err # "none" THEN w ELSE write_value(w.data, val)

ThenItems(w, items, i) ==
    IF w.err # "none" THEN w ELSE write_dict_items(w.data, items, i)

ThenElems(w, items, i) ==
    IF w.err # "none" THEN w ELSE write_list_items(w.data, items, i)

ThenFloat(w, val) == IF w.err # "none" THEN w ELSE write_float(w.data, val)

\* self.write_value(int(k, 16))
write_int_key(data, parsed) ==
    IF parsed.err # "none" THEN Raise(parsed.err)
    ELSE write_value(data, IntV(parsed.val))

\* for k, v in value.items(): the entries from the i-th on
write_dict_items(data, items, i) ==
    IF i > Len(items) THEN Ok(data)
    ELSE ThenItems(
             Then2(IF is_int_key(items[i].k)
                   THEN write_int_key(data, int_base16(items[i].k))
                   ELSE write_value(data, StrV(items[i].k)),
                   items[i].v),
             items, i + 1)

\* for item in value: the elements from the i-th on
write_list_items(data, items, i) ==
    IF i > Len(items) THEN Ok(data)
    ELSE ThenElems(write_value(data, items[i]), items, i + 1)

write_value(data, val) ==
    IF val.t = "None" THEN write_uint32(data, NIL)
    ELSE IF val.t = "bool"
         THEN write_uint32(write_uint32(data, BOOL).data, IF val.b THEN 1 ELSE 0)
    ELSE IF val.t = "int"
         THEN IF is_narrow(val.n)
              THEN write_int32(write_uint32(data, INT).data, val.n)
              ELSE write_int64(write_uint32(data, INT + 65536).data, val.n)
    ELSE IF val.t = "float"
         THEN write_double(write_uint32(data, REAL + 65536).data, val.x)
    ELSE IF val.t = "str"
         THEN write_string(write_uint32(data, STRING_).data, val.s)
    ELSE IF val.t = "dict"
         THEN IF is_vector2(val.items)
              THEN ThenFloat(write_float(write_uint32(data, VECTOR2).data,
                                         Lookup(val.items, <<120>>)),
                             Lookup(val.items, <<121>>))
              ELSE write_dict_items(
                       write_uint32(write_uint32(data, DICTIONARY).data,
                                    Len(val.items)).data,
                       val.items, 1)
    ELSE IF val.t = "list"
         THEN write_list_items(
                  write_uint32(write_uint32(data, ARRAY).data,
                               Len(val.elems)).data,
                  val.elems, 1)
    ELSE Raise("ValueError")

\* The header not counting itself: len(self.writer.get_data())
header_size_without_self(inner) == Len(inner)

\* len(self.writer.get_data()) + 4
header_size(inner) == Len(inner) + 4

\* full_data: the length header, then the inner buffer
with_header(inner) ==
    IF inner.err # "none" THEN inner
    ELSE Ok(write_uint32(<<>>, header_size(inner.data)).data \o inner.data)

\* serialize(data)
serialize(val) == with_header(write_value(<<>>, val))

(***************************************************************************)
(* class SaveFileReader: each read maps (data, position) to the value read *)
(* and the position after it, or to the exception struct.unpack raises on  *)
(* a slice of the wrong length.                                            *)
(***************************************************************************)
Got(val, pos) == [err |-> "none", val |-> val, pos |-> pos]

Fail(e, pos) == [err |-> e, val |-> None, pos |-> pos]

\* struct.unpack('<I', bs)[0] (fields below 2^31)
U32(bs) == bs[1] + (bs[2] * 256) + (bs[3] * 65536) + (bs[4] * 16777216)

read_uint32(data, pos) ==
    LET bs == Slice(data, pos, pos + 4)
    IN  IF Len(bs) # 4 THEN Fail("struct.error", pos) ELSE Got(U32(bs), pos + 4)

read_int32(data, pos) ==
    LET bs == Slice(data, pos, pos + 4)
    IN  IF Len(bs) # 4 THEN Fail("struct.error", pos)
        ELSE Got(IntV(FromTwos(bs)), pos + 4)

read_int64(data, pos) ==
    LET bs == Slice(data, pos, pos + 8)
    IN  IF Len(bs) # 8 THEN Fail("struct.error", pos)
        ELSE Got(IntV(FromTwos(bs)), pos + 8)

read_float(data, pos) ==
    LET bs == Slice(data, pos, pos + 4)
    IN  IF Len(bs) # 4 THEN Fail("struct.error", pos)
        ELSE Got(FloatV(unpack_f(bs)), pos + 4)

read_double(data, pos) ==
    LET bs == Slice(data, pos, pos + 8)
    IN  IF Len(bs) # 8 THEN Fail("struct.error", pos)
        ELSE Got(FloatV(unpack_d(bs)), pos + 8)

\* The slice is clipped to the buffer; the position advances by length.
read_string(data, pos, length) ==
    Got(StrV(utf8_decode_ignore(Slice(data, pos, pos + length))), pos + length)

advance(pos, count) == pos + count

(***************************************************************************)
(* class WebFishingDeserializer                                            *)
(***************************************************************************)
align_value(n, alignment) == ((n + alignment - 1) \div alignment) * alignment

\* The header check rejecting only sizes below 2
invalid_header_below_2(size) == size < 2

\* size < 4
invalid_header(size) == size < 4

\* __init__: the header read and its check
deserializer_init(data) ==
    LET size == read_uint32(data, 0)
    IN  IF size.err # "none" THEN size
        ELSE IF invalid_header(size.val)
             THEN Fail("RuntimeError: Invalid save file", size.pos)
        ELSE size

\* if flag == 0: the narrow form
reads_narrow(flag) == flag = 0

\* isinstance(key_val, int): bool is a subclass of int
is_int_instance(val) == val.t = "int" \/ val.t = "bool"

int_of(val) ==
    IF val.t = "bool" THEN PyInt(FALSE, IF val.b THEN <<1>> ELSE <<>>) ELSE val.n

\* The else branch skipping 4 bytes of payload
read_unsupported_skipping(data, pos, base_type) ==
    Got(StrV(unsupported_text(base_type)), pos + 4)

\* the else branch: nothing more is read
read_unsupported(data, pos, base_type) ==
    Got(StrV(unsupported_text(base_type)), pos)

RECURSIVE read_value(_, _)
RECURSIVE read_dict_items(_, _, _, _)
RECURSIVE read_list_items(_, _, _, _)

\* for _ in range(size): the n iterations left, result built so far
read_dict_items(data, pos, n, items) ==
    IF n = 0 THEN Got(DictV(items), pos)
    ELSE LET key_val == read_value(data, pos)
         IN  IF key_val.err # "none" THEN key_val
             ELSE IF key_val.val.t # "str" /\ ~is_int_instance(key_val.val)
                  THEN Fail("RuntimeError: Invalid dictionary key type",
                            key_val.pos)
             ELSE LET key == IF key_val.val.t = "str" THEN key_val.val.s
                             ELSE format_key(int_of(key_val.val))
                      v == read_value(data, key_val.pos)
                  IN  IF v.err # "none" THEN v
                      ELSE read_dict_items(data, v.pos, n - 1,
                                           DictSet(items, key, v.val))

read_list_items(data, pos, n, items) ==
    IF n = 0 THEN Got(ListV(items), pos)
    ELSE LET v == read_value(data, pos)
         IN  IF v.err # "none" THEN v
             ELSE read_list_items(data, v.pos, n - 1, Append(items, v.val))

read_value(data, pos) ==
    LET type_val == read_uint32(data, pos)
        base_type == type_val.val % 65536
        flag == type_val.val \div 65536
        p == type_val.pos
    IN  IF type_val.err # "none" THEN type_val
        ELSE IF base_type = NIL THEN Got(None, p)
        ELSE IF base_type = BOOL
             THEN LET b == read_uint32(data, p)
                  IN  IF b.err # "none" THEN b ELSE Got(BoolV(b.val = 1), b.pos)
        ELSE IF base_type = INT
             THEN IF reads_narrow(flag) THEN read_int32(data, p)
                  ELSE read_int64(data, p)
        ELSE IF base_type = REAL
             THEN IF reads_narrow(flag) THEN read_float(data, p)
                  ELSE read_double(data, p)
        ELSE IF base_type = STRING_
             THEN LET length == read_uint32(data, p)
                      padded_length == align_value(length.val, 4)
                      string == read_string(data, length.pos, length.val)
                  IN  IF length.err # "none" THEN length
                      ELSE Got(string.val,
                               advance(string.pos, padded_length - length.val))
        ELSE IF base_type = VECTOR2
             THEN LET x == read_float(data, p)
                      y == read_float(data, x.pos)
                  IN  IF x.err # "none" THEN x
                      ELSE IF y.err # "none" THEN y
                      ELSE Got(DictV(<<Item(<<120>>, x.val), Item(<<121>>, y.val)>>),
                               y.pos)
        ELSE IF base_type = DICTIONARY
             THEN LET size == read_uint32(data, p)
                  IN  IF size.err # "none" THEN size
                      ELSE read_dict_items(data, size.pos, size.val, <<>>)
        ELSE IF base_type = ARRAY
             THEN LET size == read_uint32(data, p)
                  IN  IF size.err # "none" THEN size
                      ELSE read_list_items(data, size.pos, size.val, <<>>)
        ELSE read_unsupported(data, p, base_type)

(***************************************************************************)
(* Inputs: the value trees handed to serialize (what json.load returns,    *)
(* and one value of a type the serializer does not know) and the byte      *)
(* buffers handed to parse_save_file.                                      *)
(***************************************************************************)
MaxLen == 2

MaxStrLen == 2

SeqsUpTo(S, n) == UNION {[1..m -> S] : m \in 0..n}

InjSeqsUpTo(S, n) ==
    {q \in SeqsUpTo(S, n) : \A i, j \in 1..Len(q) : i # j => q[i] # q[j]}

\* "a", U+00E9, U+20AC: one, two and three bytes of UTF-8
TextChars == {97, 233, 8364}

Texts == SeqsUpTo(TextChars, MaxStrLen)

\* 0, 1, -1, 2^31-1, -2^31, 2^31, -2^31-1, 2^63-1, -2^63
Ints ==
    {PyInt(FALSE, <<>>), PyInt(FALSE, <<1>>), PyInt(TRUE, <<1>>),
     I32_MAX, I32_MIN,
     PyInt(FALSE, <<8>> \o Rep(0, 7)), PyInt(TRUE, <<8>> \o Rep(0, 6) \o <<1>>),
     I64_MAX, I64_MIN}

\* 0.0, 1.5, -2.5, 0.1, 1e40, inf
Floats ==
    {Float(0, 0, 0, 0), Float(0, 1023, 33554432, 0), Float(1, 1024, 16777216, 0),
     Float(0, 1019, 40265318, 26843546), Float(0, 1155, 56150652, 29580453),
     Float(0, 2047, 0, 0)}

Leaves ==
    {None, BoolV(TRUE), BoolV(FALSE)} \cup {IntV(n) : n \in Ints}
    \cup {FloatV(x) : x \in Floats} \cup {StrV(q) : q \in Texts}

\* What the containers of the inputs hold.
Elems ==
    {None, BoolV(TRUE), IntV(PyInt(TRUE, <<1>>)),
     IntV(PyInt(FALSE, <<8>> \o Rep(0, 7))),
     FloatV(Float(0, 1019, 40265318, 26843546)), StrV(<<233>>),
     ListV(<<IntV(PyInt(FALSE, <<>>)), StrV(<<97, 97, 97>>)>>),
     DictV(<<Item(<<97>>, StrV(<<>>))>>),
     DictV(<<Item(<<48, 120, 70, 70, 70, 70, 70, 70, 70, 70>>, None)>>)}

Lists == {ListV(q) : q \in SeqsUpTo(Elems, MaxLen)}

\* "x", "y", "a", "0x1", "0xdeadbeef", "0xDEADBEEF", "0xZZ", "0x00000001"
SmallKeys ==
    {<<120>>, <<121>>, <<97>>, <<48, 120, 49>>,
     <<48, 120, 100, 101, 97, 100, 98, 101, 101, 102>>,
     <<48, 120, 68, 69, 65, 68, 66, 69, 69, 70>>,
     <<48, 120, 90, 90>>,
     <<48, 120, 48, 48, 48, 48, 48, 48, 48, 49>>}

DictVals ==
    {None, FloatV(Float(0, 1023, 33554432, 0)), ListV(<<StrV(<<97>>)>>)}

Dicts ==
    UNION {{DictV([i \in 1..Len(ks) |-> Item(ks[i], vs[i])]) :
                vs \in [1..Len(ks) -> DictVals]} :
           ks \in InjSeqsUpTo(SmallKeys, MaxLen)}

\* "1", "a", "F" in every combination of up to MaxStrLen + 1 digits, and
\* deadbeef, DeadBeef, 7fffffff, 80000000, FFFFFFFF
HexDigitStrings ==
    (SeqsUpTo({49, 97, 70}, MaxStrLen + 1) \ {<<>>})
    \cup {<<100, 101, 97, 100, 98, 101, 101, 102>>,
          <<68, 101, 97, 100, 66, 101, 101, 102>>,
          <<55, 102, 102, 102, 102, 102, 102, 102>>,
          <<56, 48, 48, 48, 48, 48, 48, 48>>,
          <<70, 70, 70, 70, 70, 70, 70, 70>>}

\* "0x", zeros, digits: between 1 and 9 hex digits in all
HexKeys ==
    {k \in {<<48, 120>> \o Rep(48, z) \o d : z \in 0..8, d \in HexDigitStrings} :
        Len(k) <= 11}

\* "0x", "0x1g", "0X1", "0x_1", "0x1 ", "0x-1", "0xFFFFFFFFFFFFFFFF",
\* "0x7FFFFFFFFFFFFFFF", "x0x1"
OddKeys ==
    {<<48, 120>>, <<48, 120, 49, 103>>, <<48, 88, 49>>, <<48, 120, 95, 49>>,
     <<48, 120, 49, 32>>, <<48, 120, 45, 49>>,
     <<48, 120>> \o Rep(70, 16), <<48, 120, 55>> \o Rep(70, 15),
     <<120, 48, 120, 49>>}

KeyDicts ==
    {DictV(<<Item(k, v)>>) : k \in HexKeys \cup OddKeys, v \in DictVals}

Pair2Vals ==
    {None, BoolV(TRUE), IntV(PyInt(FALSE, <<1>>)), IntV(I64_MAX),
     FloatV(Float(0, 1019, 40265318, 26843546)),
     FloatV(Float(0, 1155, 56150652, 29580453)), StrV(<<97>>)}

Pair2Dicts ==
    {DictV(<<Item(<<120>>, a), Item(<<121>>, b)>>) : a, b \in Pair2Vals}
    \cup {DictV(<<Item(<<121>>, a), Item(<<120>>, b)>>) : a, b \in Pair2Vals}

\* A bytes object, an int beyond 64 bits, a lone surrogate: what the
\* serializer is handed when its caller has not validated the tree.
OtherValues ==
    {[t |-> "bytes"], ListV(<<None, [t |-> "bytes"]>>),
     IntV(PyInt(FALSE, <<8>> \o Rep(0, 15))), StrV(<<97, 55296>>)}

JsonValues ==
    Leaves \cup Lists \cup Dicts \cup KeyDicts \cup Pair2Dicts \cup OtherValues

\* The bytes write_value produces for a value it accepts.
Enc(v) == write_value(<<>>, v).data

RECURSIVE Concat(_)
Concat(ss) == IF ss = <<>> THEN <<>> ELSE Head(ss) \o Concat(Tail(ss))

\* One element of a crafted Sequence: a bare tag of an unsupported base
\* type, or the record of a value.
SeqItems ==
    {[u |-> TRUE, base |-> b, v |-> None] : b \in {6, 12, 26, 27, 65535}}
    \cup {[u |-> FALSE, base |-> 0, v |-> v] :
            v \in {None, IntV(I64_MIN), StrV(<<233>>),
                   ListV(<<BoolV(TRUE)>>)}}

ItemBytes(it) == IF it.u THEN LE4(it.base) ELSE Enc(it.v)

\* Key records by wire type: those of values, and a narrow Real, a Pair2, a
\* false and an out-of-range Boolean and an unsupported base type.
KeyRecords ==
    {[wire |-> r[1], bytes |-> Enc(r[2])] :
        r \in {<<"Null", None>>, <<"Boolean", BoolV(TRUE)>>,
               <<"Integer", IntV(PyInt(TRUE, <<1>>))>>,
               <<"Integer", IntV(PyInt(FALSE, <<8>> \o Rep(0, 7)))>>,
               <<"Real", FloatV(Float(0, 1023, 33554432, 0))>>,
               <<"Text", StrV(<<97>>)>>, <<"Mapping", DictV(<<>>)>>,
               <<"Sequence", ListV(<<None>>)>>}}
    \cup {[wire |-> "Real", bytes |-> LE4(REAL) \o <<0, 0, 192, 63>>],
          [wire |-> "Pair2",
           bytes |-> LE4(VECTOR2) \o <<0, 0, 192, 63, 0, 0, 32, 192>>],
          [wire |-> "Boolean", bytes |-> LE4(BOOL) \o LE4(0)],
          [wire |-> "Boolean", bytes |-> LE4(BOOL) \o LE4(2)],
          [wire |-> "Unsupported", bytes |-> LE4(12)]}

NumPayloads ==
    {<<1, 0, 0, 0, 0, 0, 0, 0>>, <<255, 255, 255, 255, 255, 255, 255, 127>>,
     <<0, 0, 192, 63, 0, 0, 0, 64>>, <<0, 0, 0, 128, 0, 0, 248, 63>>}

NumFlags == {0, 1, 2, 3, 4, 256, 32767}

\* Values whose serialized form is cut short in a truncated file.
TruncValues ==
    {StrV(q) : q \in Texts} \cup {ListV(<<StrV(q)>>) : q \in Texts}
    \cup {ListV(<<StrV(q), None>>) : q \in Texts}
    \cup {IntV(I64_MAX), FloatV(Float(0, 1023, 33554432, 0)),
          DictV(<<Item(<<97>>, BoolV(TRUE))>>)}

NoScenario == [kind |-> "none"]

(***************************************************************************)
(* The state machine: convert_json_to_sav writes a save file, or a save    *)
(* file comes from elsewhere; parse_save_file reads the file in two steps, *)
(* the deserializer's construction and the one read_value call.            *)
(***************************************************************************)
Init ==
    /\ pc = "idle"
    /\ value = None
    /\ scenario = NoScenario
    /\ buffer = <<>>
    /\ position = 0
    /\ result = None
    /\ err = "none"
    /\ calls = 0

\* A file with the given bytes is about to be parsed.
Load(sc, bytes) ==
    /\ pc' = "saved"
    /\ scenario' = sc
    /\ buffer' = bytes
    /\ UNCHANGED <<value, position, result, err, calls>>

\* convert_json_to_sav: json.load, serialize, write
Serialize ==
    /\ pc = "idle"
    /\ \E v \in JsonValues :
        \E r \in {serialize(v)} :
            /\ value' = v
            /\ scenario' = [kind |-> "json"]
            /\ pc' = IF r.err = "none" THEN "saved" ELSE "encode_error"
            /\ buffer' = r.data
            /\ err' = r.err
            /\ UNCHANGED <<position, result, calls>>

\* A file with any declared size in front of a record, or a file too short
\* to hold the size.
LoadHeader ==
    /\ pc = "idle"
    /\ \E size \in 0..5, v \in Elems, keep \in 0..4 :
        Load([kind |-> "header", size |-> size, keep |-> keep],
             IF keep < 4 THEN SubSeq(LE4(size), 1, keep)
             ELSE LE4(size) \o Enc(v))

\* A save file cut short after cut bytes.
LoadTruncated ==
    /\ pc = "idle"
    /\ \E v \in TruncValues :
        \E file \in {serialize(v).data} :
            \E cut \in 4..Len(file) :
                Load([kind |-> "truncated", v |-> v, cut |-> cut],
                     SubSeq(file, 1, cut))

\* A Sequence some of whose elements have unsupported base types, at the
\* top level or as the first of two elements of an enclosing Sequence.
LoadSeq ==
    /\ pc = "idle"
    /\ \E items \in SeqsUpTo(SeqItems, MaxLen) \ {<<>>}, wrap \in BOOLEAN :
        LET seq == LE4(ARRAY) \o LE4(Len(items))
                   \o Concat([i \in 1..Len(items) |-> ItemBytes(items[i])])
            body == IF wrap
                    THEN LE4(ARRAY) \o LE4(2) \o seq
                         \o LE4(STRING_) \o LE4(1) \o <<97, 0, 0, 0>>
                    ELSE seq
        IN  Load([kind |-> "seq", items |-> items, wrap |-> wrap],
                 LE4(header_size(body)) \o body)

\* A Mapping whose key records are of any wire type, each value Null.
LoadKey ==
    /\ pc = "idle"
    /\ \E keys \in SeqsUpTo(KeyRecords, MaxLen) \ {<<>>} :
        LET body == LE4(DICTIONARY) \o LE4(Len(keys))
                    \o Concat([i \in 1..Len(keys) |-> keys[i].bytes \o LE4(NIL)])
        IN  Load([kind |-> "key", keys |-> keys], LE4(header_size(body)) \o body)

\* An Integer or Real record with any flag, 4 or 8 bytes of payload.
LoadNum ==
    /\ pc = "idle"
    /\ \E base \in {INT, REAL}, flag \in NumFlags, payload \in NumPayloads,
          n \in {4, 8} :
        LET body == LE4(base + (flag * 65536)) \o SubSeq(payload, 1, n)
        IN  Load([kind |-> "num", base |-> base, flag |-> flag,
                  payload |-> SubSeq(payload, 1, n)],
                 LE4(header_size(body)) \o body)

\* parse_save_file: deserializer = WebFishingDeserializer(data)
DeserializerInit ==
    /\ pc = "saved"
    /\ \E r \in {deserializer_init(buffer)} :
        /\ pc' = IF r.err = "none" THEN "header_ok" ELSE "failed"
        /\ position' = r.pos
        /\ err' = r.err
        /\ UNCHANGED <<value, scenario, buffer, result, calls>>

\* parse_save_file: return deserializer.read_value()
ReadValue ==
    /\ pc = "header_ok"
    /\ \E r \in {read_value(buffer, position)} :
        /\ calls' = calls + 1
        /\ pc' = IF r.err = "none" THEN "done" ELSE "failed"
        /\ position' = r.pos
        /\ result' = r.val
        /\ err' = r.err
        /\ UNCHANGED <<value, scenario, buffer>>

Next ==
    \/ Serialize
    \/ LoadHeader
    \/ LoadTruncated
    \/ LoadSeq
    \/ LoadKey
    \/ LoadNum
    \/ DeserializerInit
    \/ ReadValue

Spec == Init /\ [][Next]_vars

(***************************************************************************)
(* Properties.  The predicates below describe inputs and expected results  *)
(* in their own terms; none of them is part of the codec.                  *)
(***************************************************************************)
RECURSIVE Nodes(_)
\* The value and every value nested in it.
Nodes(v) ==
    {v} \cup
    (IF v.t = "list" THEN UNION {Nodes(v.elems[i]) : i \in 1..Len(v.elems)}
     ELSE IF v.t = "dict"
          THEN UNION {Nodes(v.items[i].v) : i \in 1..Len(v.items)}
     ELSE {})

KeysOf(items) == {items[i].k : i \in 1..Len(items)}

NoSurrogate(q) == \A i \in 1..Len(q) : ~(q[i] >= 55296 /\ q[i] <= 57343)

\* Null, Boolean, Integer within 64 bits, Real, Text, Sequence, Mapping with
\* Text keys.
IsSupportedNode(n) ==
    \/ n.t \in {"None", "bool", "float", "list"}
    \/ n.t = "int" /\ IntLE(I64_MIN, n.n) /\ IntLE(n.n, I64_MAX)
    \/ n.t = "str" /\ NoSurrogate(n.s)
    \/ n.t = "dict" /\ \A k \in KeysOf(n.items) : NoSurrogate(k)

Supported(v) == \A n \in Nodes(v) : IsSupportedNode(n)

IsXY(n) == n.t = "dict" /\ KeysOf(n.items) = {<<120>>, <<121>>}

IsHexDigit(c) ==
    (c >= 48 /\ c <= 57) \/ (c >= 65 /\ c <= 70) \/ (c >= 97 /\ c <= 102)

IsUpperHexDigit(c) == (c >= 48 /\ c <= 57) \/ (c >= 65 /\ c <= 70)

Has0x(k) == Len(k) >= 2 /\ k[1] = 48 /\ k[2] = 120

\* "0x" and exactly 8 upper-case hex digits: the form the decoder gives keys
IsCanonicalKey(k) ==
    Has0x(k) /\ Len(k) = 10 /\ \A i \in 3..10 : IsUpperHexDigit(k[i])

\* "0x" and exactly 8 hex digits of either case
IsHex8Key(k) == Has0x(k) /\ Len(k) = 10 /\ \A i \in 3..10 : IsHexDigit(k[i])

\* "0x" and 1 to 8 hex digits of either case
IsShortHexKey(k) ==
    Has0x(k) /\ Len(k) >= 3 /\ Len(k) <= 10
    /\ \A i \in 3..Len(k) : IsHexDigit(k[i])

\* "0x", then the digits of k in upper case, zero-padded to 8
Canon8(k) ==
    <<48, 120>> \o Rep(48, 10 - Len(k))
    \o [i \in 1..(Len(k) - 2) |-> IF k[i + 2] >= 97 THEN k[i + 2] - 32 ELSE k[i + 2]]

\* The domain the round trip is claimed for.
RoundTripDomain(v) == Supported(v) /\ \A n \in Nodes(v) : ~IsXY(n)

\* ... and on which it holds: no key is rewritten by the integer-key
\* coercion.
KeysKept(v) ==
    \A n \in Nodes(v) :
        n.t = "dict" => \A k \in KeysOf(n.items) : ~Has0x(k) \/ IsCanonicalKey(k)

Parsed == pc \in {"done", "failed"}

\* C1 as claimed: for every value built from Null, Boolean, Integer within 64
\* bits, Real, Text, Sequence and Mapping whose key set is not exactly
\* {"x", "y"}, decoding the buffer serialize produced returns the value.
C1_RoundTripAsClaimed ==
    (scenario.kind = "json" /\ RoundTripDomain(value))
        => /\ pc # "failed"
           /\ pc = "done" => result = value

\* C1 amended: the round trip holds for those values none of whose Mapping
\* keys begins with "0x", unless the key is "0x" followed by exactly 8
\* upper-case hex digits; entries and elements come back in the same order.
C1_RoundTrip ==
    (scenario.kind = "json" /\ RoundTripDomain(value) /\ KeysKept(value))
        => /\ pc \notin {"encode_error", "failed"}
           /\ pc = "done" => (err = "none" /\ result = value)

C1_Witness ==
    /\ pc = "done"
    /\ scenario.kind = "json"
    /\ RoundTripDomain(value)
    /\ KeysKept(value)
    /\ value.t = "dict"
    /\ Len(value.items) = 2
    /\ \E i \in 1..2 : IsCanonicalKey(value.items[i].k)
    /\ result = value

\* C2: the first 4 bytes of every buffer serialize returns, read as a
\* little-endian u32, equal the length of the buffer.
C2_HeaderSelfConsistent ==
    (scenario.kind = "json" /\ pc \in {"saved", "header_ok", "done", "failed"})
        => Len(buffer) >= 4 /\ U32(SubSeq(buffer, 1, 4)) = Len(buffer)

C2_Witness ==
    /\ pc = "saved"
    /\ scenario.kind = "json"
    /\ value.t = "dict"
    /\ Len(buffer) > 40
    /\ U32(SubSeq(buffer, 1, 4)) = Len(buffer)

\* C3: serialize completes without raising for every value built only from
\* Null, Boolean, Integer, Real, Text, Sequence and Mapping with Text keys.
C3_EncodeTotal ==
    (scenario.kind = "json" /\ Supported(value)) => pc # "encode_error"

\* The first Text record of a truncated file: where its payload begins,
\* and its declared length.
TextFirst(v) ==
    v.t = "str" \/ (v.t = "list" /\ v.elems # <<>> /\ v.elems[1].t = "str")

PayloadOffset(v) == IF v.t = "str" THEN 12 ELSE 20

DeclaredLength(v) ==
    Len(EncodeChars(IF v.t = "str" THEN v.s ELSE v.elems[1].s))

\* C4: when a Text record declares a byte length that exceeds the bytes
\* remaining after its length field, the decode fails with an out-of-bounds
\* error and returns no value.
C4_TruncatedTextRejected ==
    (/\ scenario.kind = "truncated"
     /\ TextFirst(scenario.v)
     /\ scenario.cut >= PayloadOffset(scenario.v)
     /\ DeclaredLength(scenario.v) > scenario.cut - PayloadOffset(scenario.v)
     /\ Parsed)
        => pc = "failed" /\ err = "struct.error" /\ result = None

\* C5: for every buffer whose first 4 bytes, read as a little-endian u32,
\* are less than 4, constructing the decoder fails with the invalid-header
\* error before read_value is entered: the only read is the header's.
C5_MalformedHeaderRejected ==
    (/\ pc \in {"header_ok", "done", "failed"}
     /\ Len(buffer) >= 4
     /\ U32(SubSeq(buffer, 1, 4)) < 4)
        => /\ pc = "failed"
           /\ err = "RuntimeError: Invalid save file"
           /\ calls = 0
           /\ position = 4
           /\ result = None

C5_Witness ==
    /\ pc = "failed"
    /\ scenario.kind = "header"
    /\ scenario.keep = 4
    /\ scenario.size = 2
    /\ Len(buffer) > 4
    /\ calls = 0

\* "Unsupported type " and the tag number in decimal
Placeholder(base) ==
    <<85, 110, 115, 117, 112, 112, 111, 114, 116, 101, 100, 32,
      116, 121, 112, 101, 32>>
    \o (CASE base = 6 -> <<54>>
          [] base = 12 -> <<49, 50>>
          [] base = 26 -> <<50, 54>>
          [] base = 27 -> <<50, 55>>
          [] base = 65535 -> <<54, 53, 53, 51, 53>>)

SeqMatches(seq, items) ==
    /\ seq.t = "list"
    /\ Len(seq.elems) = Len(items)
    /\ \A i \in 1..Len(items) :
        seq.elems[i] = IF items[i].u THEN StrV(Placeholder(items[i].base))
                       ELSE items[i].v

\* C6: decoding a Sequence of declared count N in which elements carry
\* unsupported base types completes without error and returns N elements,
\* the placeholder Text at each such position, the siblings and the
\* enclosing Sequence decoded as if the element were not there.
C6_UnknownTypeNonFatal ==
    (/\ scenario.kind = "seq"
     /\ \E i \in 1..Len(scenario.items) : scenario.items[i].u
     /\ Parsed)
        => /\ pc = "done"
           /\ err = "none"
           /\ IF scenario.wrap
              THEN /\ result.t = "list"
                   /\ Len(result.elems) = 2
                   /\ SeqMatches(result.elems[1], scenario.items)
                   /\ result.elems[2] = StrV(<<97>>)
              ELSE SeqMatches(result, scenario.items)

C6_Witness ==
    /\ pc = "done"
    /\ scenario.kind = "seq"
    /\ scenario.wrap
    /\ Len(scenario.items) = 2
    /\ scenario.items[1].u
    /\ scenario.items[1].base = 12
    /\ ~scenario.items[2].u
    /\ result.elems[1].elems[1] = StrV(Placeholder(12))

\* A Mapping each of whose keys is plain or short hex.
CoercibleDict(v) ==
    /\ v.t = "dict"
    /\ ~IsXY(v)
    /\ \A k \in KeysOf(v.items) : ~Has0x(k) \/ IsShortHexKey(k)
    /\ \E k \in KeysOf(v.items) : IsShortHexKey(k)

\* C7: encoding a Mapping with a key "0x" followed by 1 to 8 hex digits of
\* either case and decoding the result yields a Mapping whose corresponding
\* key is "0x" followed by the 8 upper-case, zero-padded digits of the same
\* number.
C7_IntegerKeyCoercion ==
    (scenario.kind = "json" /\ CoercibleDict(value))
        => /\ pc \notin {"encode_error", "failed"}
           /\ pc = "done" =>
                /\ result.t = "dict"
                /\ \A i \in 1..Len(value.items) :
                    IsShortHexKey(value.items[i].k) =>
                        /\ Canon8(value.items[i].k) \in KeysOf(result.items)
                        /\ Len(result.items) = Len(value.items) =>
                             result.items[i].k = Canon8(value.items[i].k)

C7_Witness ==
    /\ pc = "done"
    /\ scenario.kind = "json"
    /\ CoercibleDict(value)
    /\ Len(value.items) = 2
    /\ value.items[2].k = <<48, 120, 100, 101, 97, 100, 98, 101, 101, 102>>
    /\ result.items[2].k = <<48, 120, 68, 69, 65, 68, 66, 69, 69, 70>>

\* C8: a Mapping key record of wire type Null, Boolean, Real, Pair2, Mapping
\* or Sequence makes the decode fail with the invalid-key-type error.
C8_KeyTypeChecked ==
    (/\ scenario.kind = "key"
     /\ \E i \in 1..Len(scenario.keys) :
            scenario.keys[i].wire \in
                {"Null", "Boolean", "Real", "Pair2", "Mapping", "Sequence"}
     /\ Parsed)
        => pc = "failed" /\ err = "RuntimeError: Invalid dictionary key type"

\* What the narrow and the wide form of a payload denote.
NarrowValue(base, payload) ==
    IF base = INT THEN IntV(FromTwos(SubSeq(payload, 1, 4)))
    ELSE FloatV(unpack_f(SubSeq(payload, 1, 4)))

WideValue(base, payload) ==
    IF base = INT THEN IntV(FromTwos(payload)) ELSE FloatV(unpack_d(payload))

\* C9: an Integer or Real record is read in the narrow 4-byte form exactly
\* when bit 0 of its flag is 0 and in the wide 8-byte form exactly when bit
\* 0 is 1, whatever the flag bits 1..15.
C9_FlagBit0Only ==
    (scenario.kind = "num" /\ Parsed)
        => IF scenario.flag % 2 = 0
           THEN /\ pc = "done"
                /\ position = 12
                /\ result = NarrowValue(scenario.base, scenario.payload)
           ELSE Len(scenario.payload) = 8 =>
                /\ pc = "done"
                /\ position = 16
                /\ result = WideValue(scenario.base, scenario.payload)

\* C10: in the general Mapping case the key is written as an Integer record
\* exactly when it is "0x" followed by exactly 8 hex digits, and as a Text
\* record otherwise (checked on the first entry, whose key record follows
\* the header, the Mapping tag and the count).
C10_KeyDispatch ==
    (/\ scenario.kind = "json"
     /\ Supported(value)
     /\ value.t = "dict"
     /\ value.items # <<>>
     /\ ~IsXY(value))
        => /\ pc # "encode_error"
           /\ pc = "saved" =>
                U32(SubSeq(buffer, 13, 16)) % 65536 =
                    IF IsHex8Key(value.items[1].k) THEN INT ELSE STRING_

====
